---- MODULE Spec2Model ----
(***************************************************************************)
(* Model of chess.py: the leaderboard fetch, the per-player reconstruction *)
(* of the daily rating series, and the concurrent aggregation that writes  *)
(* ratings.csv.                                                            *)
(*                                                                         *)
(* Python values are records [type, int, str] so that values of different  *)
(* Python types can sit in one dict and be told apart (the sort step of    *)
(* the aggregation depends on the type of its keys).  A datetime.date is   *)
(* its proleptic ordinal; a '%Y-%m-%d' string is the triple <<y, m, d>>;   *)
(* the string f"today-{k}" is the pair <<"today", k>>.                     *)
(***************************************************************************)
EXTENDS Integers, Sequences, FiniteSets, TLC

VARIABLES today, dates, now, pc, n, topResp, players, histResp, task,
          ratings, csv

vars == <<today, dates, now, pc, n, topResp, players, histResp, task,
          ratings, csv>>

----------------------------------------------------------------------------
(* Bounds of the model *)

\* longest leaderboard the aggregation is run on
MaxPlayers == 2
\* longest remote leaderboard handed to the leaderboard fetch alone
MaxUsers == 3
\* largest n asked of the leaderboard fetch alone
MaxN == 4
\* longest raw observation list handed to the reconstruction alone
MaxPoints == 3
\* how many calendar days the clock may advance during a run
MaxDrift == 1

----------------------------------------------------------------------------
(* Program constants *)

STYLE == "classical"
DAYS_BACK == 31
LOOKBACK_DAYS == 30
TOP_N == 50
max_workers == 10

----------------------------------------------------------------------------
(* Python values *)

PyInt(i) == [type |-> "int", int |-> i, str |-> ""]
PyStr(s) == [type |-> "str", int |-> 0, str |-> s]
PyNone == [type |-> "NoneType", int |-> 0, str |-> ""]

\* a dict with no order of interest is a function; {} is the empty function
EmptyDict == <<>>

\* dict.get(key, default)
DictGet(d, key, default) == IF key \in DOMAIN d THEN d[key] ELSE default

\* str.capitalize() on the style names used
Capitalize(s) ==
    CASE s = "classical" -> "Classical"
      [] s = "blitz" -> "Blitz"
      [] OTHER -> s

----------------------------------------------------------------------------
(* datetime: the proleptic Gregorian calendar *)

IsLeap(y) == (y % 4 = 0 /\ y % 100 # 0) \/ y % 400 = 0

DaysInMonth(y, m) ==
    CASE m \in {1, 3, 5, 7, 8, 10, 12} -> 31
      [] m \in {4, 6, 9, 11} -> 30
      [] OTHER -> IF IsLeap(y) THEN 29 ELSE 28

DaysBeforeYear(y) ==
    LET y1 == y - 1
    IN  y1 * 365 + (y1 \div 4) - (y1 \div 100) + (y1 \div 400)

RECURSIVE DaysBeforeMonth(_, _)
DaysBeforeMonth(y, m) ==
    IF m <= 1 THEN 0 ELSE DaysBeforeMonth(y, m - 1) + DaysInMonth(y, m - 1)

\* datetime(year, month, day) raises ValueError unless this holds
ValidDate(y, m, d) ==
    /\ y \in 1..9999
    /\ m \in 1..12
    /\ d \in 1..DaysInMonth(y, m)

\* datetime(year, month, day).date() as an ordinal
Ymd2Ord(y, m, d) == DaysBeforeYear(y) + DaysBeforeMonth(y, m) + d

\* the years the model's dates fall in
Years == 2022..2024

\* the calendar date of an ordinal
Ord2Ymd(o) ==
    LET y == CHOOSE yy \in Years :
                 DaysBeforeYear(yy) < o /\ o <= DaysBeforeYear(yy + 1)
        r == o - DaysBeforeYear(y)
        m == CHOOSE mm \in 1..12 :
                 /\ DaysBeforeMonth(y, mm) < r
                 /\ r <= DaysBeforeMonth(y, mm) + DaysInMonth(y, mm)
    IN  <<y, m, r - DaysBeforeMonth(y, m)>>

\* date.strftime(DATE_FORMAT)
Strftime(o) == Ord2Ymd(o)

\* dates = [(today - timedelta(days=i)).strftime(...) for i in range(DAYS_BACK)][::-1]
Dates(t) == [i \in 1..DAYS_BACK |-> Strftime(t - (DAYS_BACK - i))]

----------------------------------------------------------------------------
(* Helpers for Python sequences *)

Min(a, b) == IF a <= b THEN a ELSE b
Max(a, b) == IF a >= b THEN a ELSE b

\* the slice forgotten: players = data['users']
SliceToWhole(s, k) == s

\* s[:k]
SliceTo(s, k) ==
    IF k >= 0 THEN SubSeq(s, 1, Min(k, Len(s)))
              ELSE SubSeq(s, 1, Max(Len(s) + k, 0))

----------------------------------------------------------------------------
(* fetch_top_classical_players *)

\* requests.get(...) raised RequestException (also from raise_for_status)
RequestFailed(resp) == resp.status = "RequestException"
\* resp.json() raised ValueError
JsonFailed(resp) == resp.status = "ValueError"

\* how a call ends: with a returned value, or with an exception its caller sees
Returned(v) == [raised |-> FALSE, value |-> v]
Raised == [raised |-> TRUE, value |-> <<>>]

\* the except ValueError clause forgotten: a body that is no JSON raises
fetch_top_uncaught_ValueError(k, resp) ==
    IF RequestFailed(resp) THEN Returned(<<>>)
    ELSE IF JsonFailed(resp) THEN Raised
    ELSE IF resp.has_users THEN Returned(SliceTo(resp.users, k))
    ELSE Returned(<<>>)

\* both except clauses and the missing-key branch leave players = []
fetch_top_classical_players(k, resp) ==
    IF RequestFailed(resp) \/ JsonFailed(resp) THEN Returned(<<>>)
    ELSE IF resp.has_users THEN Returned(SliceTo(resp.users, k))
    ELSE Returned(<<>>)

----------------------------------------------------------------------------
(* fetch_last_30_day_rating_for_player *)

MISSING == -1
NO_RATING_FOUND == PyStr("No rating found")

RetNone == [type |-> "NoneType", items |-> EmptyDict]
RetDict(d) == [type |-> "dict", items |-> d]

\* next((category for category in data if category['name'] == STYLE.capitalize()), None)
ClassicalHistory(data) ==
    LET hits == {i \in DOMAIN data : data[i].name = Capitalize(STYLE)}
    IN  IF hits = {} THEN <<>>
        ELSE <<data[CHOOSE i \in hits : \A j \in hits : i <= j]>>

\* datetime(year, month + 1, day) succeeds for this raw point
PointValid(pt) == ValidDate(pt[1], pt[2] + 1, pt[3])
PointDate(pt) == Ymd2Ord(pt[1], pt[2] + 1, pt[3])

\* {datetime(year, month + 1, day).date(): rating for ... in points}:
\* a later point with the same date overwrites an earlier one
ClassicalRatings(points) ==
    LET date == [i \in DOMAIN points |-> PointDate(points[i])]
    IN  [d \in {date[i] : i \in DOMAIN points} |->
            LET last == CHOOSE i \in DOMAIN points :
                            /\ date[i] = d
                            /\ \A j \in DOMAIN points : date[j] = d => j <= i
            IN  PyInt(points[last][4])]

\* reverse=True forgotten: the earliest date before the period is taken
SeedRatingEarliest(cr, t) ==
    LET before == {d \in DOMAIN cr : d < t - LOOKBACK_DAYS}
    IN  IF before = {} THEN PyNone
        ELSE cr[CHOOSE d \in before : \A e \in before : d <= e]

\* the loop over sorted(classical_ratings.keys(), reverse=True): the first
\* date before the period gives the rating, None when there is none
SeedRating(cr, t) ==
    LET before == {d \in DOMAIN cr : d < t - LOOKBACK_DAYS}
    IN  IF before = {} THEN PyNone
        ELSE cr[CHOOSE d \in before : \A e \in before : e <= d]

\* rating_by_day = {today - timedelta(days=i): -1 for i in range(DAYS_BACK)}
\* followed by the loop that copies the ratings whose date is a key
InitialRatingByDay(cr, t) ==
    [d \in {t - i : i \in 0..(DAYS_BACK - 1)} |->
        IF d \in DOMAIN cr THEN cr[d] ELSE PyInt(MISSING)]

\* sorted(rating_by_day.keys())
SortedDays(t) == [i \in 1..DAYS_BACK |-> t - DAYS_BACK + i]

\* the loop over sorted(rating_by_day.keys()) from position i on
RECURSIVE ForwardFill(_, _, _, _)
ForwardFill(rbd, days, i, last) ==
    IF i > Len(days) THEN rbd
    ELSE LET d == days[i]
         IN  IF rbd[d] = PyInt(MISSING)
             THEN ForwardFill([rbd EXCEPT ![d] = last], days, i + 1, last)
             ELSE ForwardFill(rbd, days, i + 1, rbd[d])

\* f"today-{(today - date).days}"
TodayKey(t, d) == <<"today", t - d>>

\* {f"today-{...}": rating if rating is not None else "No rating found" ...}
Formatted(rbd, t) ==
    [key \in {TodayKey(t, d) : d \in DOMAIN rbd} |->
        LET v == rbd[t - key[2]]
        IN  IF v # PyNone THEN v ELSE NO_RATING_FOUND]

fetch_last_30_day_rating_for_player(t, resp) ==
    IF RequestFailed(resp) \/ JsonFailed(resp) THEN RetNone
    ELSE LET ch == ClassicalHistory(resp.data)
         IN  IF ch = <<>> THEN RetDict(EmptyDict)
             ELSE IF \E i \in DOMAIN ch[1].points : ~PointValid(ch[1].points[i])
                  THEN RetNone  \* ValueError, caught at line 97
             ELSE LET cr == ClassicalRatings(ch[1].points)
                      rbd == ForwardFill(InitialRatingByDay(cr, t),
                                         SortedDays(t), 1, SeedRating(cr, t))
                  IN  RetDict(Formatted(rbd, t))

----------------------------------------------------------------------------
(* Inputs: what the remote service may answer *)

AllNames == <<"p1", "p2", "p3", "p4", "p5">>
Names(k) == {AllNames[i] : i \in 1..Min(k, Len(AllNames))}

\* sequences without repetition over S, of length at most k
DistinctSeqs(S, k) ==
    UNION {{s \in [1..len -> S] : \A i, j \in 1..len : i # j => s[i] # s[j]}
           : len \in 0..k}

Player(u) == [username |-> u]

\* leaderboard answers: a failure, a JSON object without 'users', or a
\* ranked list of distinct users
TopNoUsersKey == [status |-> "json", has_users |-> FALSE, users |-> <<>>]
\* no request made yet
NoResponse == [status |-> "none", has_users |-> FALSE, users |-> <<>>]
TopUsers(us) ==
    [status |-> "json", has_users |-> TRUE,
     users |-> [i \in DOMAIN us |-> Player(us[i])]]
TopResponses(S, k) ==
    {[status |-> "RequestException", has_users |-> FALSE, users |-> <<>>],
     [status |-> "ValueError", has_users |-> FALSE, users |-> <<>>],
     TopNoUsersKey}
    \cup {TopUsers(us) : us \in DistinctSeqs(S, k)}

\* the leaderboards of the aggregation's runs: user names are opaque, so
\* the ranked list p1, p2, ... stands for every list of its length
Leaderboards(k) ==
    {TopUsers([i \in 1..len |-> AllNames[i]]) : len \in 0..Min(k, Len(AllNames))}
RunTopResponses ==
    TopResponses({}, 0) \cup Leaderboards(MaxPlayers)

\* the reference dates of the runs
Todays == {Ymd2Ord(2023, 3, 15), Ymd2Ord(2023, 3, 16)}

Ratings == {2400, 2500}

\* raw (year, zero-based month, day) of the wire format: well before the
\* period, around its first day, inside it, the reference dates (the later
\* one lies after the earlier), and one that is no calendar date (Feb 30)
RawDays ==
    {<<2023, 0, 20>>, <<2023, 1, 12>>, <<2023, 1, 13>>, <<2023, 1, 14>>,
     <<2023, 2, 1>>, <<2023, 2, 15>>, <<2023, 2, 16>>, <<2023, 1, 30>>}
RawPoints == {<<rd[1], rd[2], rd[3], r>> : rd \in RawDays, r \in Ratings}

PointLists(k) == UNION {[1..len -> RawPoints] : len \in 0..k}

\* a rating-history answer: a failure, or a list of categories
HistJson(data) == [status |-> "json", data |-> data]
HistFailure ==
    {[status |-> "RequestException", data |-> <<>>],
     [status |-> "ValueError", data |-> <<>>]}
Blitz == [name |-> "Blitz", points |-> <<<<2023, 2, 15, 1500>>>>]
Classical(points) == [name |-> "Classical", points |-> points]
HistAbsent == HistJson(<<Blitz>>)
HistClassical(points) == HistJson(<<Blitz, Classical(points)>>)

\* answers given to the reconstruction alone
HistResponses ==
    HistFailure \cup {HistAbsent}
    \cup {HistClassical(pts) : pts \in PointLists(MaxPoints)}

\* answers given to the tasks of the aggregation
TaskPointLists ==
    {<<>>,
     <<<<2023, 2, 15, 2400>>>>, <<<<2023, 2, 15, 2500>>>>,
     <<<<2023, 0, 20, 2400>>>>, <<<<2023, 2, 17, 2500>>>>,
     <<<<2023, 2, 15, 2500>>, <<2023, 1, 30, 2400>>>>}
TaskResponses ==
    HistFailure \cup {HistAbsent}
    \cup {HistClassical(pts) : pts \in TaskPointLists}

----------------------------------------------------------------------------
(* Insertion-ordered dicts: sequences of <<key, value>> *)

OKeys(d) == [i \in DOMAIN d |-> d[i][1]]
OHas(d, k) == \E i \in DOMAIN d : d[i][1] = k
OGet(d, k) == d[CHOOSE i \in DOMAIN d : d[i][1] = k][2]
\* d[k] = v: a new key goes last, a known key keeps its place
OSet(d, k, v) ==
    IF OHas(d, k)
    THEN [i \in DOMAIN d |-> IF d[i][1] = k THEN <<k, v>> ELSE d[i]]
    ELSE Append(d, <<k, v>>)

----------------------------------------------------------------------------
(* sorted(latest_ratings, key=latest_ratings.get, reverse=True) *)

\* a < b between two keys of one type; every str key is "No rating found"
KeyLess(a, b) == IF a.type = "int" THEN a.int < b.int ELSE FALSE

\* comparing an int with a str raises TypeError; a sort of keys of both
\* types makes such a comparison
SortRaises(latest) ==
    \E i, j \in DOMAIN latest : latest[i][2].type # latest[j][2].type

\* x goes before the first element whose key is smaller: equal keys keep
\* the order they had (the sort is stable, reverse=True keeps that too)
InsertDesc(acc, x, latest) ==
    LET smaller == {i \in DOMAIN acc :
                        KeyLess(OGet(latest, acc[i]), OGet(latest, x))}
        pos == IF smaller = {} THEN Len(acc) + 1
               ELSE CHOOSE i \in smaller : \A j \in smaller : i <= j
    IN  SubSeq(acc, 1, pos - 1) \o <<x>> \o SubSeq(acc, pos, Len(acc))

RECURSIVE SortedDescFrom(_, _, _, _)
SortedDescFrom(keys, i, acc, latest) ==
    IF i > Len(keys) THEN acc
    ELSE SortedDescFrom(keys, i + 1, InsertDesc(acc, keys[i], latest), latest)

SortedDesc(latest) == SortedDescFrom(OKeys(latest), 1, <<>>, latest)

----------------------------------------------------------------------------
(* generate_rating_csv_for_top_50_classical_players *)

NoCsv == [written |-> FALSE, header |-> <<>>, rows |-> <<>>]
NoTasks == <<>>
Usernames(ps) == {ps[i].username : i \in DOMAIN ps}

\* {(today - timedelta(days=int(key.split('-')[1]))).strftime('%Y-%m-%d'): value ...}
PlayerRatings(raw, t) ==
    LET items == {<<Strftime(t - key[2]), raw[key]>> : key \in DOMAIN raw}
    IN  [date \in {it[1] : it \in items} |->
            (CHOOSE it \in items : it[1] = date)[2]]

\* the body of the as_completed loop for one future: None has no .items(),
\* the AttributeError is caught and the player gets {}
Collected(res, t) ==
    IF res.type = "NoneType" THEN EmptyDict ELSE PlayerRatings(res.items, t)

\* player_ratings.get(datetime.today().strftime('%Y-%m-%d'), 0) per player
LatestRatings(rs, clock) ==
    [i \in DOMAIN rs |->
        <<rs[i][1], DictGet(rs[i][2], Strftime(clock), PyInt(0))>>]

\* [ratings[username].get(date, '') for date in dates]
Row(rs, u, ds) ==
    [username |-> u,
     values |-> [i \in DOMAIN ds |-> DictGet(OGet(rs, u), ds[i], PyStr(""))]]

\* the header row and one row per username of the sorted order
CsvFile(rs, sorted, ds) ==
    [written |-> TRUE,
     header |-> ds,
     rows |-> [i \in DOMAIN sorted |-> Row(rs, sorted[i], ds)]]

Init ==
    /\ today \in Todays
    /\ dates = Dates(today)
    /\ now = today
    /\ pc = "start"
    /\ n = TOP_N
    /\ topResp = NoResponse
    /\ players = <<>>
    /\ histResp = <<>>
    /\ task = NoTasks
    /\ ratings = <<>>
    /\ csv = NoCsv

\* lines 121-129: the leaderboard fetch, the early return, the submits
GenerateStart(resp) ==
    /\ pc = "start"
    /\ topResp' = resp
    /\ LET r == fetch_top_classical_players(n, resp)
       IN  /\ players' = r.value
           /\ pc' = IF r.raised THEN "uncaught"
                    ELSE IF r.value = <<>> THEN "no_players"
                    ELSE "as_completed"
           /\ task' = IF r.raised THEN NoTasks
                      ELSE [u \in Usernames(r.value) |->
                               [state |-> "pending", res |-> RetNone]]
    /\ UNCHANGED <<today, dates, now, n, histResp, ratings, csv>>

\* a worker of the pool takes a submitted call
TaskStart(u) ==
    /\ pc = "as_completed"
    /\ u \in DOMAIN task
    /\ task[u].state = "pending"
    /\ Cardinality({v \in DOMAIN task : task[v].state = "running"}) < max_workers
    /\ task' = [task EXCEPT ![u].state = "running"]
    /\ UNCHANGED <<today, dates, now, pc, n, topResp, players, histResp,
                   ratings, csv>>

\* the call gets its answer and returns: the future is finished
TaskFinish(u, resp) ==
    /\ pc = "as_completed"
    /\ u \in DOMAIN task
    /\ task[u].state = "running"
    /\ histResp' = [v \in DOMAIN histResp \cup {u} |->
                       IF v = u THEN resp ELSE histResp[v]]
    /\ task' = [task EXCEPT ![u] =
                   [state |-> "finished",
                    res |-> fetch_last_30_day_rating_for_player(today, resp)]]
    /\ UNCHANGED <<today, dates, now, pc, n, topResp, players, ratings, csv>>

\* lines 131-139: as_completed yields a finished future
Collect(u) ==
    /\ pc = "as_completed"
    /\ u \in DOMAIN task
    /\ task[u].state = "finished"
    /\ ratings' = OSet(ratings, u, Collected(task[u].res, today))
    /\ task' = [task EXCEPT ![u].state = "yielded"]
    /\ UNCHANGED <<today, dates, now, pc, n, topResp, players, histResp, csv>>

AllYielded == \A u \in DOMAIN task : task[u].state = "yielded"

\* lines 141-147 when the sort raises: nothing is written
SortFails ==
    /\ pc = "as_completed"
    /\ AllYielded
    /\ SortRaises(LatestRatings(ratings, now))
    /\ pc' = "TypeError"
    /\ UNCHANGED <<today, dates, now, n, topResp, players, histResp, task,
                   ratings, csv>>

\* lines 141-159: the sort and the file
SortAndWrite ==
    /\ pc = "as_completed"
    /\ AllYielded
    /\ ~SortRaises(LatestRatings(ratings, now))
    /\ csv' = CsvFile(ratings, SortedDesc(LatestRatings(ratings, now)), dates)
    /\ pc' = "done"
    /\ UNCHANGED <<today, dates, now, n, topResp, players, histResp, task,
                   ratings>>

\* midnight passes between the module's load and the sort
DayRollover ==
    /\ pc \in {"start", "as_completed"}
    /\ now - today < MaxDrift
    /\ now' = now + 1
    /\ UNCHANGED <<today, dates, pc, n, topResp, players, histResp, task,
                   ratings, csv>>

Next ==
    \/ \E resp \in RunTopResponses : GenerateStart(resp)
    \/ \E u \in Names(MaxPlayers) : TaskStart(u)
    \/ \E u \in Names(MaxPlayers), resp \in TaskResponses : TaskFinish(u, resp)
    \/ \E u \in Names(MaxPlayers) : Collect(u)
    \/ SortFails
    \/ SortAndWrite
    \/ DayRollover

Spec == Init /\ [][Next]_vars

----------------------------------------------------------------------------
(* The leaderboard fetch alone, for every n and every answer *)

InitFetchTop ==
    /\ today = Ymd2Ord(2023, 3, 15)
    /\ dates = Dates(today)
    /\ now = today
    /\ pc = "fetch_top"
    /\ n \in 0..MaxN
    /\ topResp \in TopResponses(Names(MaxUsers), MaxUsers)
    /\ players = <<>>
    /\ histResp = <<>>
    /\ task = NoTasks
    /\ ratings = <<>>
    /\ csv = NoCsv

CallFetchTop ==
    /\ pc = "fetch_top"
    /\ LET r == fetch_top_classical_players(n, topResp)
       IN  /\ players' = r.value
           /\ pc' = IF r.raised THEN "uncaught" ELSE "returned"
    /\ UNCHANGED <<today, dates, now, n, topResp, histResp, task, ratings, csv>>

NextFetchTop == CallFetchTop

SpecFetchTop == InitFetchTop /\ [][NextFetchTop]_vars

----------------------------------------------------------------------------
(* The reconstruction alone, for every reference date and every answer *)

InitReconstruct ==
    /\ today \in Todays
    /\ dates = Dates(today)
    /\ now = today
    /\ pc = "fetch_last_30"
    /\ n = 1
    /\ topResp = TopUsers(<<"p1">>)
    /\ players = <<Player("p1")>>
    /\ histResp \in [{"p1"} -> HistResponses]
    /\ task = NoTasks
    /\ ratings = <<>>
    /\ csv = NoCsv

CallFetchLast30 ==
    /\ pc = "fetch_last_30"
    /\ task' = [u \in {"p1"} |->
                   [state |-> "finished",
                    res |-> fetch_last_30_day_rating_for_player(today, histResp[u])]]
    /\ pc' = "returned"
    /\ UNCHANGED <<today, dates, now, n, topResp, players, histResp, ratings, csv>>

NextReconstruct == CallFetchLast30

SpecReconstruct == InitReconstruct /\ [][NextReconstruct]_vars

----------------------------------------------------------------------------
(* Properties of the reconstruction (SpecReconstruct) *)

Returned30 == pc = "returned" /\ "p1" \in DOMAIN task
Res30 == task["p1"].res
\* the call returned a series (not None, not the {} of an absent category)
HasSeries == Returned30 /\ Res30.type = "dict" /\ Res30.items # EmptyDict
Points30 == ClassicalHistory(histResp["p1"].data)[1].points

\* the date of each observation that is a calendar date, 0 for the others
DatesOf(points) ==
    [i \in DOMAIN points |->
        IF PointValid(points[i]) THEN PointDate(points[i]) ELSE 0]
\* the observations dated at or before d
AtOrBefore(date, d) == {i \in DOMAIN date : date[i] # 0 /\ date[i] <= d}
\* among them the chronologically latest; of two on one date the later in
\* the raw list
LatestAtOrBefore(date, d) ==
    CHOOSE i \in AtOrBefore(date, d) :
        \A j \in AtOrBefore(date, d) :
            date[j] < date[i] \/ (date[j] = date[i] /\ j <= i)

\* C1: every entry of a reconstructed series is the rating of the latest
\* observation of the whole history dated at or before the entry's date,
\* and is the unknown marker exactly when there is no such observation;
\* observations dated after the entry's date play no part.
C1_EntryIsLatestObservation ==
    HasSeries =>
        LET points == Points30
            date == DatesOf(points)
            items == Res30.items
        IN  /\ \A k \in 0..29 : TodayKey(today, today - k) \in DOMAIN items
            /\ \A key \in DOMAIN items :
                  LET d == today - key[2]
                  IN  IF AtOrBefore(date, d) = {}
                      THEN items[key] = NO_RATING_FOUND
                      ELSE items[key] =
                               PyInt(points[LatestAtOrBefore(date, d)][4])

\* a history with observations on two dates before the period and one
\* inside it: the first entry is forward-filled from before the period and
\* the last entry, dated after the one inside, differs from it
C1_Witness ==
    /\ HasSeries
    /\ Cardinality({PointDate(Points30[i]) : i \in
           {j \in DOMAIN Points30 : PointDate(Points30[j]) < today - 30}}) = 2
    /\ Res30.items[TodayKey(today, today - 30)].type = "int"
    /\ Res30.items[TodayKey(today, today)].type = "int"
    /\ Res30.items[TodayKey(today, today)] # Res30.items[TodayKey(today, today - 30)]

\* C2: a reconstructed series has exactly 30 entries, one per calendar day
\* from the reference date minus 29 days to the reference date.
C2_ThirtyEntries ==
    HasSeries =>
        DOMAIN Res30.items = {TodayKey(today, today - k) : k \in 0..29}

\* the answer with the observations that are no calendar date removed
WithoutInvalid(resp) ==
    [resp EXCEPT !.data =
        [i \in DOMAIN resp.data |->
            [resp.data[i] EXCEPT !.points = SelectSeq(@, PointValid)]]]

\* C9: an observation that is no valid calendar date is dropped on its own:
\* the call returns what it returns for the history without it.
C9_InvalidObservationDropped ==
    (Returned30 /\ histResp["p1"].status = "json") =>
        Res30 = fetch_last_30_day_rating_for_player(
                    today, WithoutInvalid(histResp["p1"]))

----------------------------------------------------------------------------
(* Properties of the leaderboard fetch (SpecFetchTop) *)

\* C8: a successful fetch returns the first min(n, length) entities of the
\* remote list, in the remote order.
C8_FirstNInRemoteOrder ==
    (pc = "returned" /\ topResp.status = "json" /\ topResp.has_users) =>
        /\ Len(players) = Min(n, Len(topResp.users))
        /\ \A i \in 1..Len(players) : players[i] = topResp.users[i]

\* the remote list is longer than n and something is returned
C8_Witness ==
    /\ pc = "returned"
    /\ topResp.status = "json" /\ topResp.has_users
    /\ n >= 2
    /\ Len(topResp.users) > n
    /\ Len(players) = n

----------------------------------------------------------------------------
(* Properties of the aggregation (Spec) *)

TopFailed(resp) ==
    \/ RequestFailed(resp)
    \/ JsonFailed(resp)
    \/ (resp.status = "json" /\ ~resp.has_users)

Unknown(v) == v.type = "str"
\* the value of a row in the last date column
LastColumn(row) == row.values[Len(row.values)]
\* the leaderboard rank of a user
Rank(u) == CHOOSE i \in DOMAIN players : players[i].username = u

\* C3: in the written report every row's reference-date rating is at most
\* that of the row before it, and a row with an unknown one comes after
\* every row with a known one.
C3_RowsNonIncreasing ==
    pc = "done" =>
        \A i, j \in DOMAIN csv.rows :
            i < j =>
                LET a == LastColumn(csv.rows[i])
                    b == LastColumn(csv.rows[j])
                IN  /\ Unknown(a) => Unknown(b)
                    /\ (~Unknown(a) /\ ~Unknown(b)) => b.int <= a.int

\* C4: the row order does not depend on the order in which the tasks
\* complete: two rows with an equal known reference-date rating are in
\* ascending leaderboard rank, whichever task completed first.
C4_TiesInLeaderboardRank ==
    pc = "done" =>
        \A i, j \in DOMAIN csv.rows :
            LET a == LastColumn(csv.rows[i])
                b == LastColumn(csv.rows[j])
            IN  (i < j /\ ~Unknown(a) /\ a = b) =>
                    Rank(csv.rows[i].username) < Rank(csv.rows[j].username)

Finished == pc \in {"done", "TypeError"}
FetchFailed(u) == RequestFailed(histResp[u]) \/ JsonFailed(histResp[u])

\* every leaderboard entity has exactly one row
OneRowEach ==
    /\ Len(csv.rows) = Len(players)
    /\ \A u \in Usernames(players) :
           Cardinality({i \in DOMAIN csv.rows : csv.rows[i].username = u}) = 1

RowOf(u) == csv.rows[CHOOSE i \in DOMAIN csv.rows : csv.rows[i].username = u]

\* C5: when some history fetches fail and others succeed the run still ends
\* with the report: one row per entity, all-unknown rows for the failed
\* ones, the returned series in the rows of the others.
C5_FailedTasksAbsorbed ==
    (/\ Finished
     /\ \E u \in DOMAIN task : FetchFailed(u)
     /\ \E u \in DOMAIN task : ~FetchFailed(u)) =>
        /\ pc = "done"
        /\ OneRowEach
        /\ \A u \in DOMAIN task :
              IF FetchFailed(u)
              THEN \A i \in DOMAIN dates : Unknown(RowOf(u).values[i])
              ELSE \A i \in DOMAIN dates :
                       RowOf(u).values[i] =
                           DictGet(Collected(task[u].res, today), dates[i], PyStr(""))

\* the history of u was fetched and every observation of it is a date
NoFailure(u) ==
    /\ ~FetchFailed(u)
    /\ LET ch == ClassicalHistory(histResp[u].data)
       IN  ch # <<>> => \A i \in DOMAIN ch[1].points : PointValid(ch[1].points[i])

\* C6: entities without usable data are no error: when every history fetch
\* succeeded the run ends with the report, a row for every entity, whatever
\* the mix of entities with and without a known rating.
C6_NoDataIsNoError ==
    (Finished /\ \A u \in DOMAIN task : NoFailure(u)) =>
        /\ pc = "done"
        /\ OneRowEach

\* C10: the sort key of every entity with a reconstructed series is the
\* value written in its last date column, whatever the clock did meanwhile.
C10_SortKeyIsLastColumn ==
    pc = "done" =>
        \A u \in DOMAIN task :
            OGet(ratings, u) # EmptyDict =>
                OGet(LatestRatings(ratings, now), u) = LastColumn(RowOf(u))

====
